---- MODULE Spec2Model ----
(***************************************************************************)
(* Model of scripts/generate-languages.py: main() fetches the user's       *)
(* repositories page by page, aggregates the per-language byte counts of   *)
(* the non-forked, non-archived ones, turns the totals into rounded        *)
(* percentages, keeps the top TOP_N and writes stats/languages.svg.        *)
(*                                                                         *)
(* Percentages are kept in tenths of a percent (integer 250 is 25.0).      *)
(* A dict is a sequence of [name, size] records in insertion order with    *)
(* distinct names.                                                         *)
(***************************************************************************)
EXTENDS Integers, Sequences, FiniteSets, TLC

\* ---- bounds of the environment ----
MaxRepos == 2      \* repositories the account holds
MaxPageLen == 2    \* items the host puts on one page
MaxLangs == 8      \* keys of a language_bytes mapping drawn directly

\* ---- program constants ----
TOP_N == 5

OUTPUT_FILE == "stats/languages.svg"

\* byte counts a language endpoint reports
Sizes == {0, 1, 1000}

\* language names, in the order the keys of a drawn mapping are inserted
LangNames == <<"Python", "JavaScript", "TypeScript", "HTML", "CSS", "Go",
               "Java", "C++", "C", "Shell", "Rust", "Zig">>

\* values of repo.get("languages_url"): None, "" or the repository's own URL
UrlValues == {"missing", "empty", "url"}

\* JSON bodies a languages_url answers with (items in the body's order)
Breakdowns == { <<>>,
                <<[name |-> "Go", size |-> 0]>>,
                <<[name |-> "Python", size |-> 1]>>,
                <<[name |-> "Python", size |-> 1000], [name |-> "Go", size |-> 1]>>,
                <<[name |-> "Go", size |-> 1000], [name |-> "Python", size |-> 1]>> }

VARIABLES pc, page, repos, idx, totals, language_bytes, result,
          top_languages, requests, files, stdout

vars == <<pc, page, repos, idx, totals, language_bytes, result,
          top_languages, requests, files, stdout>>

\* ---- helpers ----
Min(a, b) == IF a < b THEN a ELSE b

Range(s) == {s[i] : i \in 1..Len(s)}

\* a page body of n repository objects; ids continue after the last one held
PageBodies(first, n) ==
    { [i \in 1..n |-> [id |-> first + i, fork |-> f[i][1], archived |-> f[i][2],
                       languages_url |-> f[i][3]]] :
        f \in [1..n -> BOOLEAN \X BOOLEAN \X UrlValues] }

\* ---- is_valid_repo ----
\* variant: the fork test is missing
is_valid_repo_IgnoresFork(repo) ==
    IF repo.archived THEN FALSE
    ELSE TRUE

\* variant: the archived test is missing
is_valid_repo_IgnoresArchived(repo) ==
    IF repo.fork THEN FALSE
    ELSE TRUE

is_valid_repo(repo) ==
    IF repo.fork THEN FALSE
    ELSE IF repo.archived THEN FALSE
    ELSE TRUE

\* variant: lang_url is None instead of not lang_url
NoLangUrl_OnlyMissing(repo) == repo.languages_url = "missing"

\* not lang_url
NoLangUrl(repo) == repo.languages_url \in {"missing", "empty"}

\* ---- dict operations used by aggregate_languages ----
HasKey(d, k) == \E i \in 1..Len(d) : d[i].name = k

\* d.get(k, 0)
DictGet(d, k) ==
    IF HasKey(d, k) THEN (CHOOSE e \in Range(d) : e.name = k).size ELSE 0

\* d[k] = v : an existing key keeps its position, a new key goes last
DictSet(d, k, v) ==
    IF HasKey(d, k)
    THEN [i \in 1..Len(d) |-> IF d[i].name = k THEN [name |-> k, size |-> v] ELSE d[i]]
    ELSE Append(d, [name |-> k, size |-> v])

\* variant: totals[lang] = size
Accumulate_Overwrite(d, lang, size) == DictSet(d, lang, size)

\* totals[lang] = totals.get(lang, 0) + size
Accumulate(d, lang, size) == DictSet(d, lang, DictGet(d, lang) + size)

RECURSIVE AddLanguages(_, _)
\* for lang, size in languages.items(): totals[lang] = totals.get(lang, 0) + size
AddLanguages(d, languages) ==
    IF languages = <<>> THEN d
    ELSE AddLanguages(Accumulate(d, Head(languages).name, Head(languages).size),
                      Tail(languages))

\* ---- calculate_percentages ----
RECURSIVE SumValues(_)
SumValues(d) == IF d = <<>> THEN 0 ELSE Head(d).size + SumValues(Tail(d))

\* variant: round((size / total) * 100), to a whole percent
RoundPercent_Whole(size, total) == 10 * ((200 * size + total) \div (2 * total))

\* round((size / total) * 100, 1), in tenths; an exact half goes to the even tenth
RoundPercent(size, total) ==
    LET q == (1000 * size) \div total
        r == (1000 * size) % total
    IN  IF 2 * r > total THEN q + 1
        ELSE IF 2 * r < total THEN q
        ELSE IF q % 2 = 0 THEN q ELSE q + 1

\* the records appended in the loop over language_bytes.items()
Shares(d) ==
    LET total == SumValues(d)
    IN  [i \in 1..Len(d) |-> [name |-> d[i].name, percent |-> RoundPercent(d[i].size, total)]]

\* variant: an unstable sort, x goes before the records with its own percent
InsertDesc_TiesReversed(sorted, x) ==
    LET k == Cardinality({i \in 1..Len(sorted) : sorted[i].percent > x.percent})
    IN  SubSeq(sorted, 1, k) \o <<x>> \o SubSeq(sorted, k + 1, Len(sorted))

\* x goes behind every record whose percent is at least its own
InsertDesc(sorted, x) ==
    LET k == Cardinality({i \in 1..Len(sorted) : sorted[i].percent >= x.percent})
    IN  SubSeq(sorted, 1, k) \o <<x>> \o SubSeq(sorted, k + 1, Len(sorted))

RECURSIVE SortFrom(_, _)
SortFrom(sorted, rest) ==
    IF rest = <<>> THEN sorted
    ELSE SortFrom(InsertDesc(sorted, Head(rest)), Tail(rest))

\* result.sort(key=percent, reverse=True): stable, equal keys keep their order
SortDesc(s) == SortFrom(<<>>, s)

\* variant: result[:n + 1]
Take_OneMore(s, n) == SubSeq(s, 1, Min(n + 1, Len(s)))

\* result[:n]
Take(s, n) == SubSeq(s, 1, Min(n, Len(s)))

\* the local list `result` when calculate_percentages returns
SortedShares(d) == IF SumValues(d) = 0 THEN <<>> ELSE SortDesc(Shares(d))

calculate_percentages(d) ==
    IF SumValues(d) = 0 THEN <<>> ELSE Take(SortDesc(Shares(d)), TOP_N)

\* ---- generate_svg ----
\* LANG_COLORS.get(name, "#8b949e")
LangColor(name) ==
    CASE name = "Python" -> "#3572A5"
      [] name = "JavaScript" -> "#f1e05a"
      [] name = "TypeScript" -> "#3178c6"
      [] name = "HTML" -> "#e34c26"
      [] name = "CSS" -> "#563d7c"
      [] name = "Go" -> "#00ADD8"
      [] name = "Java" -> "#b07219"
      [] name = "C++" -> "#f34b7d"
      [] name = "C" -> "#555555"
      [] name = "Shell" -> "#89e051"
      [] name = "Rust" -> "#000000"
      [] name = "PHP" -> "#777BB4"
      [] name = "Ruby" -> "#701516"
      [] name = "Swift" -> "#fa7343"
      [] name = "Kotlin" -> "#A97BFF"
      [] name = "Dart" -> "#00B4AB"
      [] name = "R" -> "#198CE7"
      [] name = "Scala" -> "#c22d40"
      [] name = "Lua" -> "#000080"
      [] name = "Perl" -> "#0298c3"
      [] name = "Haskell" -> "#5e5086"
      [] name = "Elixir" -> "#6e4a7e"
      [] name = "Clojure" -> "#db5855"
      [] name = "Julia" -> "#a270ba"
      [] name = "MATLAB" -> "#e16737"
      [] name = "Objective-C" -> "#438eff"
      [] name = "Vim Script" -> "#199f4b"
      [] name = "PowerShell" -> "#012456"
      [] name = "TeX" -> "#3D6117"
      [] name = "Vue" -> "#4FC08D"
      [] name = "Svelte" -> "#ff3e00"
      [] name = "Assembly" -> "#6E4C13"
      [] name = "Makefile" -> "#427819"
      [] name = "Dockerfile" -> "#2496ED"
      [] name = "YAML" -> "#cb171e"
      [] name = "JSON" -> "#292929"
      [] name = "XML" -> "#0060ac"
      [] name = "Markdown" -> "#083fa1"
      [] name = "Other" -> "#586069"
      [] OTHER -> "#8b949e"

\* height and, per language, the bar (width in thousandths of a pixel), label and percent
generate_svg(languages) ==
    [height |-> 15 * 2 + 25 + 18 * Len(languages),
     rows |-> [i \in 1..Len(languages) |->
                 [y |-> 15 + 25 + 18 * (i - 1),
                  bar_width |-> languages[i].percent * 180,
                  fill |-> LangColor(languages[i].name),
                  label |-> languages[i].name,
                  percent |-> languages[i].percent]]]

\* ---- the request log: every requests.get with the response it received ----
PageRequest(n, status, data) ==
    [kind |-> "repos", target |-> n, status |-> status, data |-> data]

LangRequest(id, status, data) ==
    [kind |-> "languages", target |-> id, status |-> status, data |-> data]

\* ---- main(), from its first statement ----
Init ==
    /\ pc = "fetch"
    /\ page = 1
    /\ repos = <<>>
    /\ idx = 1
    /\ totals = <<>>
    /\ language_bytes = <<>>
    /\ result = <<>>
    /\ top_languages = <<>>
    /\ requests = <<>>
    /\ files = {}
    /\ stdout = <<>>

\* fetch_all_repos: the page request fails, raise_for_status() raises
FetchPageFail ==
    /\ pc = "fetch"
    /\ requests' = Append(requests, PageRequest(page, "error", <<>>))
    /\ pc' = "aborted"
    /\ UNCHANGED <<page, repos, idx, totals, language_bytes, result,
                   top_languages, files, stdout>>

\* fetch_all_repos: the page is empty, break and return repos;
\* main goes on to aggregate_languages(repos) with totals = {}
FetchPageEmpty ==
    /\ pc = "fetch"
    /\ requests' = Append(requests, PageRequest(page, "ok", <<>>))
    /\ pc' = "aggregate"
    /\ idx' = 1
    /\ totals' = <<>>
    /\ UNCHANGED <<page, repos, language_bytes, result, top_languages, files, stdout>>

\* variant: page += 1 is missing
FetchPageData_SamePage ==
    /\ pc = "fetch"
    /\ \E n \in 1..MaxPageLen :
         /\ Len(repos) + n <= MaxRepos
         /\ \E data \in PageBodies(Len(repos), n) :
              /\ requests' = Append(requests, PageRequest(page, "ok", data))
              /\ repos' = repos \o data
    /\ UNCHANGED <<pc, page, idx, totals, language_bytes, result, top_languages, files, stdout>>

\* fetch_all_repos: the page has items, extend repos and go to the next page
FetchPageData ==
    /\ pc = "fetch"
    /\ \E n \in 1..MaxPageLen :
         /\ Len(repos) + n <= MaxRepos
         /\ \E data \in PageBodies(Len(repos), n) :
              /\ requests' = Append(requests, PageRequest(page, "ok", data))
              /\ repos' = repos \o data
    /\ page' = page + 1
    /\ UNCHANGED <<pc, idx, totals, language_bytes, result, top_languages, files, stdout>>

\* aggregate_languages: not is_valid_repo(repo), continue
SkipInvalidRepo ==
    /\ pc = "aggregate"
    /\ idx <= Len(repos)
    /\ ~is_valid_repo(repos[idx])
    /\ idx' = idx + 1
    /\ UNCHANGED <<pc, page, repos, totals, language_bytes, result,
                   top_languages, requests, files, stdout>>

\* aggregate_languages: not lang_url, continue
SkipNoUrl ==
    /\ pc = "aggregate"
    /\ idx <= Len(repos)
    /\ is_valid_repo(repos[idx])
    /\ NoLangUrl(repos[idx])
    /\ idx' = idx + 1
    /\ UNCHANGED <<pc, page, repos, totals, language_bytes, result,
                   top_languages, requests, files, stdout>>

\* variant: the failed response is ignored and the loop goes on
AggregateFail_Swallowed ==
    /\ pc = "aggregate"
    /\ idx <= Len(repos)
    /\ is_valid_repo(repos[idx])
    /\ ~NoLangUrl(repos[idx])
    /\ requests' = Append(requests, LangRequest(repos[idx].id, "error", <<>>))
    /\ idx' = idx + 1
    /\ UNCHANGED <<pc, page, repos, totals, language_bytes, result,
                   top_languages, files, stdout>>

\* aggregate_languages: the languages request fails, raise_for_status() raises
AggregateFail ==
    /\ pc = "aggregate"
    /\ idx <= Len(repos)
    /\ is_valid_repo(repos[idx])
    /\ ~NoLangUrl(repos[idx])
    /\ requests' = Append(requests, LangRequest(repos[idx].id, "error", <<>>))
    /\ pc' = "aborted"
    /\ UNCHANGED <<page, repos, idx, totals, language_bytes, result,
                   top_languages, files, stdout>>

\* aggregate_languages: the languages request succeeds, add its items to totals
AggregateRepo ==
    /\ pc = "aggregate"
    /\ idx <= Len(repos)
    /\ is_valid_repo(repos[idx])
    /\ ~NoLangUrl(repos[idx])
    /\ \E languages \in Breakdowns :
         /\ requests' = Append(requests, LangRequest(repos[idx].id, "ok", languages))
         /\ totals' = AddLanguages(totals, languages)
    /\ idx' = idx + 1
    /\ UNCHANGED <<pc, page, repos, language_bytes, result, top_languages, files, stdout>>

\* aggregate_languages: the loop is over, return totals to main
AggregateReturn ==
    /\ pc = "aggregate"
    /\ idx > Len(repos)
    /\ language_bytes' = totals
    /\ pc' = "calculate"
    /\ UNCHANGED <<page, repos, idx, totals, result, top_languages, requests, files, stdout>>

\* main: top_languages = calculate_percentages(language_bytes)
Calculate ==
    /\ pc = "calculate"
    /\ result' = SortedShares(language_bytes)
    /\ top_languages' = calculate_percentages(language_bytes)
    /\ pc' = "report"
    /\ UNCHANGED <<page, repos, idx, totals, language_bytes, requests, files, stdout>>

\* main: not top_languages, print and return
NoData ==
    /\ pc = "report"
    /\ top_languages = <<>>
    /\ stdout' = Append(stdout, "No language data found.")
    /\ pc' = "done"
    /\ UNCHANGED <<page, repos, idx, totals, language_bytes, result,
                   top_languages, requests, files>>

\* main: generate_svg, makedirs, write the file, print
WriteFile ==
    /\ pc = "report"
    /\ top_languages # <<>>
    /\ files' = {[path |-> OUTPUT_FILE, content |-> generate_svg(top_languages)]}
    /\ stdout' = Append(stdout, "languages.svg generated successfully")
    /\ pc' = "done"
    /\ UNCHANGED <<page, repos, idx, totals, language_bytes, result,
                   top_languages, requests>>

Next ==
    \/ FetchPageFail
    \/ FetchPageEmpty
    \/ FetchPageData
    \/ SkipInvalidRepo
    \/ SkipNoUrl
    \/ AggregateFail
    \/ AggregateRepo
    \/ AggregateReturn
    \/ Calculate
    \/ NoData
    \/ WriteFile

Spec == Init /\ [][Next]_vars

\* ---- calculate_percentages on its own: main() at the point where ----
\* ---- aggregate_languages has returned a mapping of up to MaxLangs keys ----
DrawnMappings ==
    UNION { { [i \in 1..n |-> [name |-> LangNames[i], size |-> s[i]]] : s \in [1..n -> Sizes] } :
            n \in 0..MaxLangs }

InitCalc ==
    /\ pc = "calculate"
    /\ page = 1
    /\ repos = <<>>
    /\ idx = 1
    /\ language_bytes \in DrawnMappings
    /\ totals = language_bytes
    /\ result = <<>>
    /\ top_languages = <<>>
    /\ requests = <<>>
    /\ files = {}
    /\ stdout = <<>>

NextCalc ==
    \/ Calculate
    \/ NoData
    \/ WriteFile

SpecCalc == InitCalc /\ [][NextCalc]_vars

\* ---- views of the request log ----
PageLog == SelectSeq(requests, LAMBDA q : q.kind = "repos")

LangLog == SelectSeq(requests, LAMBDA q : q.kind = "languages")

Last(s) == s[Len(s)]

\* fetch_all_repos has returned its list to main
FetchReturned ==
    /\ PageLog # <<>>
    /\ Last(PageLog).status = "ok"
    /\ Last(PageLog).data = <<>>

\* aggregate_languages has returned its totals to main
AggregateReturned == pc \in {"calculate", "report", "done"}

Requested(id) == \E i \in 1..Len(requests) :
                    requests[i].kind = "languages" /\ requests[i].target = id

Excluded(repo) == repo.fork \/ repo.archived

Counted(repo) == ~repo.fork /\ ~repo.archived /\ repo.languages_url = "url"

Names(s) == {s[i].name : i \in 1..Len(s)}

\* every language name a response body can carry
BodyNames == UNION {{b[i].name : i \in 1..Len(b)} : b \in Breakdowns}

\* bytes of language l in one JSON body
BodyBytes(body, l) ==
    IF \E i \in 1..Len(body) : body[i].name = l
    THEN (CHOOSE e \in Range(body) : e.name = l).size
    ELSE 0

RECURSIVE ServedBytes(_, _, _)
\* bytes of language l in the bodies served for the repositories in ids
ServedBytes(log, l, ids) ==
    IF log = <<>> THEN 0
    ELSE (IF Head(log).kind = "languages" /\ Head(log).status = "ok" /\ Head(log).target \in ids
          THEN BodyBytes(Head(log).data, l) ELSE 0)
         + ServedBytes(Tail(log), l, ids)

\* what the language endpoint of repository id answered
Endpoint(id) ==
    (CHOOSE q \in Range(requests) :
        q.kind = "languages" /\ q.target = id /\ q.status = "ok").data

RECURSIVE aggregate_languages(_, _)
\* aggregate_languages(rs), started from totals d, against the answers in the log
aggregate_languages(rs, d) ==
    IF rs = <<>> THEN d
    ELSE IF ~is_valid_repo(Head(rs)) THEN aggregate_languages(Tail(rs), d)
    ELSE IF NoLangUrl(Head(rs)) THEN aggregate_languages(Tail(rs), d)
    ELSE aggregate_languages(Tail(rs), AddLanguages(d, Endpoint(Head(rs).id)))

RECURSIVE RepoBytes(_, _)
\* bytes of language l summed over the counted repositories of rs
RepoBytes(rs, l) ==
    IF rs = <<>> THEN 0
    ELSE (IF Counted(Head(rs)) THEN BodyBytes(Endpoint(Head(rs).id), l) ELSE 0)
         + RepoBytes(Tail(rs), l)

RECURSIVE SumOver(_, _)
SumOver(S, f) ==
    IF S = {} THEN 0
    ELSE LET x == CHOOSE y \in S : TRUE IN f[x] + SumOver(S \ {x}, f)

RECURSIVE SumPercent(_)
SumPercent(s) == IF s = <<>> THEN 0 ELSE Head(s).percent + SumPercent(Tail(s))

Abs(x) == IF x < 0 THEN -x ELSE x

\* position of key k in the insertion order of dict d
Pos(d, k) == CHOOSE i \in 1..Len(d) : d[i].name = k

Calculated == pc \in {"report", "done"}

\* C1: a request that received a non-success response is the last request of
\* the run; the run is aborted there and stats/languages.svg is never written.
C1_AbortOnFailure ==
    \A i \in 1..Len(requests) :
        requests[i].status = "error" =>
            /\ i = Len(requests)
            /\ pc = "aborted"
            /\ files = {}
            /\ stdout = <<>>

C1_Witness ==
    /\ pc = "aborted"
    /\ Len(PageLog) >= 2
    /\ Len(LangLog) >= 2
    /\ totals # <<>>
    /\ Last(requests).kind = "languages"
    /\ Last(requests).status = "error"

\* C2: no request is ever issued to the languages_url of a forked or archived
\* repository, and the totals hold only bytes served for the other repositories.
C2_ExcludedNeverQueried ==
    /\ \A r \in Range(repos) : Excluded(r) => ~Requested(r.id)
    /\ \A l \in BodyNames \cup Names(totals) :
         DictGet(totals, l) =
            ServedBytes(requests, l, {r.id : r \in {x \in Range(repos) : ~Excluded(x)}})

C2_Witness ==
    /\ pc = "done"
    /\ files # {}
    /\ \E r \in Range(repos) : r.fork /\ ~r.archived /\ r.languages_url = "url"
    /\ \E r \in Range(repos) : Counted(r)

\* C3: pages are requested in the order 1, 2, 3, ...; once fetch_all_repos has
\* returned after k non-empty pages and an empty one, exactly k+1 page requests
\* were issued and repos is the concatenation of the k non-empty pages in order.
C3_Pagination ==
    /\ \A i \in 1..Len(PageLog) : PageLog[i].target = i
    /\ \A i \in 1..(Len(PageLog) - 1) : PageLog[i].status = "ok" /\ PageLog[i].data # <<>>
    /\ FetchReturned =>
         LET k == Cardinality({i \in 1..Len(PageLog) : PageLog[i].data # <<>>})
             Concat[i \in 0..k] == IF i = 0 THEN <<>> ELSE Concat[i - 1] \o PageLog[i].data
         IN  /\ Len(PageLog) = k + 1
             /\ repos = Concat[k]

C3_Witness ==
    /\ FetchReturned
    /\ Len(PageLog) = 3
    /\ Len(repos) = 2
    /\ pc = "done"

\* C4: at the return of aggregate_languages to main every language's total is the sum
\* of its bytes over the counted repositories, the values add up to all bytes of
\* those repositories, and every ordering of the repository list gives the same
\* mapping.
C4_TotalsAreSums ==
    pc = "calculate" =>
        /\ \A l \in BodyNames \cup Names(language_bytes) :
              DictGet(language_bytes, l) = RepoBytes(repos, l)
        /\ \A l \in Names(language_bytes) :
              \E r \in Range(repos) : Counted(r) /\ HasKey(Endpoint(r.id), l)
        /\ SumValues(language_bytes) = SumOver(BodyNames, [l \in BodyNames |-> RepoBytes(repos, l)])
        /\ \A p \in Permutations(1..Len(repos)) :
              Range(aggregate_languages([i \in 1..Len(repos) |-> repos[p[i]]], <<>>))
                 = Range(language_bytes)

C4_Witness ==
    /\ pc = "calculate"
    /\ Cardinality({r \in Range(repos) : Counted(r)}) >= 2
    /\ DictGet(language_bytes, "Python") = 1001
    /\ DictGet(language_bytes, "Go") = 1

\* C5: when every fetched repository is forked or archived (or there is none),
\* the aggregate is empty, calculate_percentages returns nothing, and main
\* prints the no-data message and ends without writing the file.
C5_OnlyExcludedNoOutput ==
    (FetchReturned /\ \A r \in Range(repos) : Excluded(r)) =>
        /\ pc # "aborted"
        /\ LangLog = <<>>
        /\ totals = <<>>
        /\ language_bytes = <<>>
        /\ top_languages = <<>>
        /\ files = {}
        /\ pc = "done" => stdout = <<"No language data found.">>

C5_Witness ==
    /\ pc = "done"
    /\ stdout = <<"No language data found.">>
    /\ Len(repos) >= 2
    /\ \A r \in Range(repos) : Excluded(r) /\ r.languages_url = "url"
    /\ \E r \in Range(repos) : r.fork /\ ~r.archived
    /\ \E r \in Range(repos) : r.archived /\ ~r.fork

\* C6: with a non-zero grand total calculate_percentages returns min(TOP_N, n)
\* records of distinct languages, in non-increasing percent order, and no
\* language left out has a larger rounded percent than one returned.
C6_TopNDescending ==
    (Calculated /\ SumValues(language_bytes) # 0) =>
        LET all == Shares(language_bytes)
            n == Len(language_bytes)
        IN  /\ Len(top_languages) = Min(5, n)
            /\ Range(top_languages) \subseteq Range(all)
            /\ Cardinality(Names(top_languages)) = Len(top_languages)
            /\ \A i, j \in 1..Len(top_languages) :
                  i < j => top_languages[i].percent >= top_languages[j].percent
            /\ \A x \in Range(all) : x.name \notin Names(top_languages) =>
                  \A y \in Range(top_languages) : x.percent <= y.percent

C6_Witness ==
    /\ Calculated
    /\ Len(language_bytes) = 8
    /\ Len(top_languages) = 5
    /\ top_languages[1].percent > top_languages[5].percent
    /\ top_languages[5].percent > 0
    /\ language_bytes[1].size < language_bytes[8].size

\* C7: a language with total 0 gets percent 0.0, and no result returns a
\* language with total 0 while leaving out a language with a non-zero total.
C7_ZeroNeverDisplaces ==
    (Calculated /\ SumValues(language_bytes) # 0) =>
        /\ \A i \in 1..Len(language_bytes) :
              language_bytes[i].size = 0 => Shares(language_bytes)[i].percent = 0
        /\ ~ \E i, j \in 1..Len(language_bytes) :
              /\ language_bytes[i].size = 0
              /\ language_bytes[i].name \in Names(top_languages)
              /\ language_bytes[j].size # 0
              /\ language_bytes[j].name \notin Names(top_languages)

\* C8 as stated: for every non-empty mapping the rounded percentages of all
\* languages add up to 100.0 within 0.1 per language.
C8_SumNear100 ==
    (Calculated /\ language_bytes # <<>>) =>
        Abs(SumPercent(result) - 1000) <= Len(language_bytes)

\* C8 amended: for every mapping with a non-zero grand total there is one
\* rounded percentage per language and they add up to 100.0 within 0.1 per
\* language.
C8_SumNear100NonZero ==
    (Calculated /\ SumValues(language_bytes) # 0) =>
        /\ Len(result) = Len(language_bytes)
        /\ Abs(SumPercent(result) - 1000) <= Len(language_bytes)

C8_Witness ==
    /\ Calculated
    /\ Len(language_bytes) >= 3
    /\ SumValues(language_bytes) # 0
    /\ SumPercent(result) # 1000

\* C9: languages with equal rounded percent are returned in the insertion order
\* of the mapping, and of such languages on both sides of the cutoff the ones
\* kept were inserted before the ones left out.
C9_TiesKeepInsertionOrder ==
    Calculated =>
        /\ \A i, j \in 1..Len(result) :
              (i < j /\ result[i].percent = result[j].percent) =>
                  Pos(language_bytes, result[i].name) < Pos(language_bytes, result[j].name)
        /\ top_languages = SubSeq(result, 1, Len(top_languages))
        /\ \A i \in 1..Len(top_languages) : \A j \in 1..Len(result) :
              (result[j].name \notin Names(top_languages)
                 /\ result[j].percent = top_languages[i].percent) =>
                  Pos(language_bytes, top_languages[i].name) < Pos(language_bytes, result[j].name)

C9_Witness ==
    /\ Calculated
    /\ Len(result) >= 7
    /\ Len(top_languages) = 5
    /\ result[4].percent = result[6].percent
    /\ result[4].percent > 0
    /\ result[1].percent > result[4].percent
    /\ Pos(language_bytes, result[1].name) > Pos(language_bytes, result[6].name)

\* C10: a non-forked, non-archived repository without a languages_url is passed
\* over: the step that meets it issues no request, raises nothing, leaves the
\* totals alone and moves on to the next repository; no request is ever issued
\* for it, and the returned totals are those of the counted repositories.
C10_NoUrlState ==
    /\ \A r \in Range(repos) : (~Excluded(r) /\ NoLangUrl(r)) => ~Requested(r.id)
    /\ AggregateReturned =>
          \A l \in BodyNames \cup Names(language_bytes) : DictGet(language_bytes, l) = RepoBytes(repos, l)

C10_NoUrlStep ==
    (/\ pc = "aggregate"
     /\ idx <= Len(repos)
     /\ ~Excluded(repos[idx])
     /\ repos[idx].languages_url \in {"missing", "empty"})
    => (/\ pc' = "aggregate"
        /\ idx' = idx + 1
        /\ totals' = totals
        /\ requests' = requests
        /\ files' = files)

C10_NoUrlSkipped == []C10_NoUrlState /\ [][C10_NoUrlStep]_vars

C10_Witness ==
    /\ pc = "done"
    /\ files # {}
    /\ stdout = <<"languages.svg generated successfully">>
    /\ ~Excluded(repos[1]) /\ repos[1].languages_url \in {"missing", "empty"}
    /\ \E r \in Range(repos) : Counted(r)

====
